---- MODULE Spec2Model ----
(***************************************************************************)
(* SmartLoad load optimizer: optimizer.py (compatibility predicate,        *)
(* branch-and-bound search, result assembly) as a state machine.           *)
(*                                                                         *)
(* Positions are 0-based as in the source; a Python list l is the TLA+     *)
(* sequence whose element i+1 is l[i].  Bitmasks are non-negative          *)
(* integers handled with the bit operators below.  A string is the         *)
(* sequence of its characters.  A date is its ordinal number.              *)
(***************************************************************************)
EXTENDS Integers, Sequences, FiniteSets

(***************************************************************************)
(* Bounds of the model.                                                    *)
(***************************************************************************)
MaxOrders == 3
MaxPayout == 2
MaxWeight == 2
MaxVolume == 2
MaxDate == 2
MaxTruckWeight == 3
MaxTruckVolume == 3
MaxThreadOrders == 2

(***************************************************************************)
(* Python int operators on bitmasks: &, |, 1 << i, mask & (1 << i).        *)
(***************************************************************************)
RECURSIVE BitAnd(_, _)
BitAnd(a, b) ==
    IF a = 0 \/ b = 0 THEN 0
    ELSE (a % 2) * (b % 2) + 2 * BitAnd(a \div 2, b \div 2)

RECURSIVE BitOr(_, _)
BitOr(a, b) ==
    IF a = 0 THEN b
    ELSE IF b = 0 THEN a
    ELSE (IF a % 2 = 1 \/ b % 2 = 1 THEN 1 ELSE 0) + 2 * BitOr(a \div 2, b \div 2)

Shl1(i) == 2 ^ i

TestBit(mask, i) == BitAnd(mask, Shl1(i)) # 0

(***************************************************************************)
(* str.strip().lower() over the characters the model uses.                 *)
(***************************************************************************)
Whitespace == {" ", "\t"}

LowerChar(c) ==
    CASE c = "L" -> "l"
      [] c = "A" -> "a"
      [] c = "S" -> "s"
      [] c = "F" -> "f"
      [] c = "N" -> "n"
      [] c = "Y" -> "y"
      [] OTHER -> c

RECURSIVE LStrip(_)
LStrip(s) ==
    IF s # << >> /\ Head(s) \in Whitespace THEN LStrip(Tail(s)) ELSE s

RECURSIVE RStrip(_)
RStrip(s) ==
    IF s # << >> /\ s[Len(s)] \in Whitespace
    THEN RStrip(SubSeq(s, 1, Len(s) - 1))
    ELSE s

Strip(s) == RStrip(LStrip(s))

Lower(s) == [k \in 1..Len(s) |-> LowerChar(s[k])]

(* Faulty variant: strips but does not fold case. *)
normalize_location_strip_only(location) == Strip(location)

normalize_location(location) == Lower(Strip(location))

(***************************************************************************)
(* The pairwise compatibility predicate.                                   *)
(***************************************************************************)
check_route_compatibility(order1, order2) ==
    /\ normalize_location(order1.origin) = normalize_location(order2.origin)
    /\ normalize_location(order1.destination) = normalize_location(order2.destination)

Max2(a, b) == IF a >= b THEN a ELSE b

Min2(a, b) == IF a <= b THEN a ELSE b

(* Faulty variant: compares one pickup with one delivery only. *)
check_time_compatibility_one_sided(order1, order2) ==
    order1.pickup_date <= order2.delivery_date

check_time_compatibility(order1, order2) ==
    LET latest_pickup == Max2(order1.pickup_date, order2.pickup_date)
        earliest_delivery == Min2(order1.delivery_date, order2.delivery_date)
    IN  latest_pickup <= earliest_delivery

check_hazmat_compatibility(order1, order2) ==
    order1.is_hazmat = order2.is_hazmat

are_orders_compatible(order1, order2) ==
    /\ check_route_compatibility(order1, order2)
    /\ check_time_compatibility(order1, order2)
    /\ check_hazmat_compatibility(order1, order2)

(***************************************************************************)
(* build_compatibility_matrix: True everywhere, then for i < j both        *)
(* matrix[i][j] and matrix[j][i] are are_orders_compatible(orders[i],      *)
(* orders[j]).                                                             *)
(***************************************************************************)
build_compatibility_matrix(os) ==
    [a \in 1..Len(os) |->
        [b \in 1..Len(os) |->
            IF a = b THEN TRUE
            ELSE IF a < b THEN are_orders_compatible(os[a], os[b])
            ELSE are_orders_compatible(os[b], os[a])]]

(***************************************************************************)
(* State.                                                                  *)
(*   truck, orders       the arguments of optimize_load                    *)
(*   pc                  "start", "search" (inside backtrack), "done";     *)
(*                       "compared" and "built" after a call of one of the *)
(*                       two compatibility functions on its own            *)
(*   sorted_indices, sorted_orders, compatible_mask, suffix_payout         *)
(*                       the locals built before the search                *)
(*   best_result         <<payout, mask, weight, volume>>                  *)
(*   stack               the call stack of backtrack, innermost call last; *)
(*                       a frame holds the call's arguments, the loop      *)
(*                       variable i and whether the call is at its entry   *)
(*                       or in its for loop                                *)
(*   visited             history: current_mask of every call of backtrack  *)
(*                       made so far, in call order                        *)
(*   result              the returned OptimizationResult, NoResult before  *)
(*   matrix              the last value of build_compatibility_matrix      *)
(*   verdict             the last call of are_orders_compatible: the two   *)
(*                       orders and the value returned                     *)
(*   previous            what the previous call of optimize_load with the  *)
(*                       same truck and list object returned, NoResult     *)
(*                       when there was none                               *)
(*   request, response   the OptimizeRequest the handler of main.py was    *)
(*                       given and the OptimizeResponse it returned        *)
(*   dp                  the locals of optimize_load_bitmask_dp and its    *)
(*                       return value                                      *)
(*   running, suspended, given                                             *)
(*                       two calls of optimize_load in two threads: the    *)
(*                       thread that runs, the locals of the call in the   *)
(*                       thread that does not, and the arguments each call *)
(*                       was given (history)                               *)
(***************************************************************************)
VARIABLES truck, orders, pc, sorted_indices, sorted_orders, compatible_mask,
          suffix_payout, best_result, stack, visited, result, matrix, verdict,
          previous, request, response, dp, running, suspended, given

vars == <<truck, orders, pc, sorted_indices, sorted_orders, compatible_mask,
          suffix_payout, best_result, stack, visited, result, matrix, verdict,
          previous, request, response, dp, running, suspended, given>>

inputVars == <<truck, orders>>

prepVars == <<sorted_indices, sorted_orders, compatible_mask, suffix_payout>>

compatVars == <<matrix, verdict>>

handlerVars == <<request, response>>

threadVars == <<running, suspended, given>>

outerVars == <<handlerVars, dp, threadVars>>

NoResult == [selected_indices |-> << >>, total_payout_cents |-> -1,
             total_weight_lbs |-> -1, total_volume_cuft |-> -1]

NoVerdict == [called |-> FALSE]

NoRequest == [received |-> FALSE]

NoResponse == [sent |-> FALSE]

NoDp == [at |-> "idle"]

NoCall == [pc |-> "none"]

OptimizationResult(si, p, w, v) ==
    [selected_indices |-> si, total_payout_cents |-> p,
     total_weight_lbs |-> w, total_volume_cuft |-> v]

(***************************************************************************)
(* sorted(range(n), key=payout, reverse=True): a stable sort, so orders    *)
(* of equal payout keep their input order.  Built by stable insertion.     *)
(***************************************************************************)
(* Faulty variant: sorts by payout ascending (reverse=True left out). *)
InsertByPayoutAsc(seq, i, os) ==
    LET p == os[i + 1].payout_cents
        pos == Cardinality({k \in 1..Len(seq) : os[seq[k] + 1].payout_cents <= p})
    IN  SubSeq(seq, 1, pos) \o <<i>> \o SubSeq(seq, pos + 1, Len(seq))

InsertByPayoutDesc(seq, i, os) ==
    LET p == os[i + 1].payout_cents
        pos == Cardinality({k \in 1..Len(seq) : os[seq[k] + 1].payout_cents >= p})
    IN  SubSeq(seq, 1, pos) \o <<i>> \o SubSeq(seq, pos + 1, Len(seq))

RECURSIVE SortPrefix(_, _)
SortPrefix(os, k) ==
    IF k = 0 THEN << >> ELSE InsertByPayoutDesc(SortPrefix(os, k - 1), k - 1, os)

SortedIndices(os) == SortPrefix(os, Len(os))

SortedOrders(os) ==
    LET si == SortedIndices(os) IN [k \in 1..Len(os) |-> os[si[k] + 1]]

(***************************************************************************)
(* compatible_mask[i]: bit j set iff i == j or the orders at positions i   *)
(* and j of the list are compatible.                                       *)
(***************************************************************************)
RECURSIVE MaskRow(_, _, _)
MaskRow(os, i, j) ==
    IF j >= Len(os) THEN 0
    ELSE BitOr(IF i = j \/ are_orders_compatible(os[i + 1], os[j + 1])
               THEN Shl1(j) ELSE 0,
               MaskRow(os, i, j + 1))

CompatibleMask(os) == [k \in 1..Len(os) |-> MaskRow(os, k - 1, 0)]

(***************************************************************************)
(* suffix_payout[i] = suffix_payout[i + 1] + payout of position i.         *)
(***************************************************************************)
(* Faulty variant: leaves out the payout of position i itself. *)
RECURSIVE SuffixFromExclusive(_, _)
SuffixFromExclusive(os, i) ==
    IF i + 1 >= Len(os) THEN 0
    ELSE SuffixFromExclusive(os, i + 1) + os[i + 2].payout_cents

RECURSIVE SuffixFrom(_, _)
SuffixFrom(os, i) ==
    IF i >= Len(os) THEN 0 ELSE SuffixFrom(os, i + 1) + os[i + 1].payout_cents

SuffixPayout(os) == [k \in 1..(Len(os) + 1) |-> SuffixFrom(os, k - 1)]

payouts == [k \in 1..Len(sorted_orders) |-> sorted_orders[k].payout_cents]

weights == [k \in 1..Len(sorted_orders) |-> sorted_orders[k].weight_lbs]

volumes == [k \in 1..Len(sorted_orders) |-> sorted_orders[k].volume_cuft]

n == Len(orders)

max_weight == truck.max_weight_lbs

max_volume == truck.max_volume_cuft

(***************************************************************************)
(* Inputs: a truck with positive capacities and a list of valid orders     *)
(* (models.py: payout >= 0, weight > 0, volume > 0, delivery >= pickup).   *)
(* A run takes its orders from one of four families, each the product of   *)
(* the bounded sets of the fields it varies (every family varies the time  *)
(* window but the first):                                                  *)
(*   LoadOrders    payout, weight and volume                               *)
(*   WindowOrders  payout and weight                                       *)
(*   HazmatOrders  payout and hazmat flag                                  *)
(*   RouteOrders   origin (spelling included) and hazmat flag              *)
(* The compatibility predicate alone is explored over PairOrders, which    *)
(* vary origin, destination, time window and hazmat flag together.         *)
(***************************************************************************)
LosAngeles == <<"L", "A">>

LosAngelesPadded == <<" ", "l", "a", "\t">>

SanFrancisco == <<"S", "F">>

NewYork == <<"N", "Y">>

NewYorkLower == <<"n", "y", " ">>

Trucks ==
    [max_weight_lbs : 1..MaxTruckWeight, max_volume_cuft : 1..MaxTruckVolume]

Windows == {w \in (1..MaxDate) \X (1..MaxDate) : w[2] >= w[1]}

ValidOrders(payoutSet, weightSet, volumeSet, fromSet, toSet, windowSet, hazmatSet) ==
    {[payout_cents |-> p, weight_lbs |-> w, volume_cuft |-> v, origin |-> o,
      destination |-> d, pickup_date |-> t[1], delivery_date |-> t[2],
      is_hazmat |-> h] :
        p \in payoutSet, w \in weightSet, v \in volumeSet, o \in fromSet,
        d \in toSet, t \in windowSet, h \in hazmatSet}

LoadOrders ==
    ValidOrders(0..MaxPayout, 1..MaxWeight, 1..MaxVolume, {LosAngeles},
                {NewYork}, {<<1, MaxDate>>}, {FALSE})

WindowOrders ==
    ValidOrders(0..MaxPayout, 1..MaxWeight, {1}, {LosAngeles}, {NewYork},
                Windows, {FALSE})

HazmatOrders ==
    ValidOrders(0..MaxPayout, {1}, {1}, {LosAngeles}, {NewYork}, Windows,
                BOOLEAN)

RouteOrders ==
    ValidOrders({MaxPayout}, {1}, {1},
                {LosAngeles, LosAngelesPadded, SanFrancisco}, {NewYork},
                Windows, BOOLEAN)

PairOrders ==
    ValidOrders({MaxPayout}, {1}, {1},
                {LosAngeles, LosAngelesPadded, SanFrancisco},
                {NewYork, NewYorkLower}, Windows, BOOLEAN)

ListsOf(S) == UNION {[1..k -> S] : k \in 0..MaxOrders}

OrderLists ==
    ListsOf(LoadOrders) \cup ListsOf(WindowOrders) \cup ListsOf(HazmatOrders)
        \cup ListsOf(RouteOrders)

InitWith(truckSet, orderLists) ==
    /\ truck \in truckSet
    /\ orders \in orderLists
    /\ pc = "start"
    /\ sorted_indices = << >>
    /\ sorted_orders = << >>
    /\ compatible_mask = << >>
    /\ suffix_payout = << >>
    /\ best_result = <<0, 0, 0, 0>>
    /\ stack = << >>
    /\ visited = << >>
    /\ result = NoResult
    /\ matrix = << >>
    /\ verdict = NoVerdict
    /\ previous = NoResult
    /\ request = NoRequest
    /\ response = NoResponse
    /\ dp = NoDp
    /\ running = 1
    /\ suspended = NoCall
    /\ given = << >>

Init == InitWith(Trucks, OrderLists)

(***************************************************************************)
(* optimize_load -> optimize_load_backtracking, n == 0.                    *)
(***************************************************************************)
(* Faulty variant: reports the capacity as the totals. *)
EmptyResultWholeTruck == OptimizationResult(<< >>, 0, max_weight, max_volume)

EmptyResult == OptimizationResult(<< >>, 0, 0, 0)

ReturnEmpty ==
    /\ pc = "start"
    /\ n = 0
    /\ result' = EmptyResult
    /\ pc' = "done"
    /\ UNCHANGED <<inputVars, outerVars, previous, prepVars, best_result, stack, visited, compatVars>>

Frame(idx, current_mask, current_payout, current_weight, current_volume, allowed_mask) ==
    [idx |-> idx, current_mask |-> current_mask,
     current_payout |-> current_payout, current_weight |-> current_weight,
     current_volume |-> current_volume, allowed_mask |-> allowed_mask,
     i |-> idx, at |-> "enter"]

(***************************************************************************)
(* optimize_load_backtracking, n > 0: sort, masks, suffix sums, and the    *)
(* first call backtrack(0, 0, 0, 0, 0, (1 << n) - 1).                      *)
(***************************************************************************)
(* Faulty variant: sorts the caller's list itself (orders.sort) as well. *)
PrepareSortsInPlace ==
    /\ pc = "start"
    /\ n > 0
    /\ sorted_indices' = SortedIndices(orders)
    /\ sorted_orders' = SortedOrders(orders)
    /\ orders' = SortedOrders(orders)
    /\ compatible_mask' = CompatibleMask(SortedOrders(orders))
    /\ suffix_payout' = SuffixPayout(SortedOrders(orders))
    /\ best_result' = <<0, 0, 0, 0>>
    /\ stack' = <<Frame(0, 0, 0, 0, 0, Shl1(n) - 1)>>
    /\ visited' = <<0>>
    /\ pc' = "search"
    /\ UNCHANGED <<truck, outerVars, previous, result, compatVars>>

Prepare ==
    /\ pc = "start"
    /\ n > 0
    /\ sorted_indices' = SortedIndices(orders)
    /\ sorted_orders' = SortedOrders(orders)
    /\ compatible_mask' = CompatibleMask(SortedOrders(orders))
    /\ suffix_payout' = SuffixPayout(SortedOrders(orders))
    /\ best_result' = <<0, 0, 0, 0>>
    /\ stack' = <<Frame(0, 0, 0, 0, 0, Shl1(n) - 1)>>
    /\ visited' = <<0>>
    /\ pc' = "search"
    /\ UNCHANGED <<inputVars, outerVars, previous, result, compatVars>>

Top == stack[Len(stack)]

Pop == SubSeq(stack, 1, Len(stack) - 1)

(***************************************************************************)
(* backtrack, entry: "if current_payout > best_result[0]" records the      *)
(* current selection.                                                      *)
(***************************************************************************)
(* Faulty variant: an equal payout replaces the record too. *)
UpdateBestOnTie(f, best) ==
    IF f.current_payout >= best[1]
    THEN <<f.current_payout, f.current_mask, f.current_weight, f.current_volume>>
    ELSE best

UpdateBest(f, best) ==
    IF f.current_payout > best[1]
    THEN <<f.current_payout, f.current_mask, f.current_weight, f.current_volume>>
    ELSE best

(***************************************************************************)
(* backtrack, entry: "if current_payout + suffix_payout[idx] <=            *)
(* best_result[0]: return".                                                *)
(***************************************************************************)
(* Faulty variant: reads suffix_payout one position too far. *)
PrunedOffByOne(f, best) ==
    f.current_payout + (IF f.idx < n THEN suffix_payout[f.idx + 2] ELSE 0) <= best[1]

Pruned(f, best) ==
    f.current_payout + suffix_payout[f.idx + 1] <= best[1]

BacktrackPrune ==
    /\ pc = "search"
    /\ stack # << >>
    /\ Top.at = "enter"
    /\ best_result' = UpdateBest(Top, best_result)
    /\ Pruned(Top, UpdateBest(Top, best_result))
    /\ stack' = Pop
    /\ UNCHANGED <<inputVars, outerVars, previous, pc, prepVars, visited, result, compatVars>>

BacktrackExpand ==
    /\ pc = "search"
    /\ stack # << >>
    /\ Top.at = "enter"
    /\ best_result' = UpdateBest(Top, best_result)
    /\ ~Pruned(Top, UpdateBest(Top, best_result))
    /\ stack' = [stack EXCEPT ![Len(stack)] = [Top EXCEPT !.at = "loop", !.i = Top.idx]]
    /\ UNCHANGED <<inputVars, outerVars, previous, pc, prepVars, visited, result, compatVars>>

(***************************************************************************)
(* backtrack, one iteration of "for i in range(idx, n)".                   *)
(***************************************************************************)
(* Faulty variant: tests the bit of the next position. *)
AllowedNextBit(f) == TestBit(f.allowed_mask, f.i + 1)

Allowed(f) == TestBit(f.allowed_mask, f.i)

(* Faulty variant: a load that fills the truck exactly counts as over. *)
OverCapacityAtLimit(new_weight, new_volume) ==
    new_weight >= max_weight \/ new_volume >= max_volume

(* Faulty variant: no volume check. *)
OverCapacityWeightOnly(new_weight, new_volume) ==
    new_weight > max_weight

(* Faulty variant: "and" in place of "or". *)
OverCapacityBoth(new_weight, new_volume) ==
    new_weight > max_weight /\ new_volume > max_volume

OverCapacity(new_weight, new_volume) ==
    new_weight > max_weight \/ new_volume > max_volume

(* Faulty variant: does not narrow the mask by the order just chosen. *)
NewAllowedKeepsAll(f) == f.allowed_mask

(* Faulty variant: forgets the orders chosen earlier. *)
NewAllowedLastOnly(f) == compatible_mask[f.i + 1]

NewAllowed(f) == BitAnd(f.allowed_mask, compatible_mask[f.i + 1])

(* Faulty variant: recurses with i in place of i + 1. *)
NextIdxSame(f) == f.i

NextIdx(f) == f.i + 1

NextIteration == [stack EXCEPT ![Len(stack)] = [Top EXCEPT !.i = Top.i + 1]]

LoopSkipIncompatible ==
    /\ pc = "search"
    /\ stack # << >>
    /\ Top.at = "loop"
    /\ Top.i < n
    /\ ~Allowed(Top)
    /\ stack' = NextIteration
    /\ UNCHANGED <<inputVars, outerVars, previous, pc, prepVars, best_result, visited, result, compatVars>>

LoopSkipCapacity ==
    /\ pc = "search"
    /\ stack # << >>
    /\ Top.at = "loop"
    /\ Top.i < n
    /\ Allowed(Top)
    /\ OverCapacity(Top.current_weight + weights[Top.i + 1],
                    Top.current_volume + volumes[Top.i + 1])
    /\ stack' = NextIteration
    /\ UNCHANGED <<inputVars, outerVars, previous, pc, prepVars, best_result, visited, result, compatVars>>

LoopRecurse ==
    /\ pc = "search"
    /\ stack # << >>
    /\ Top.at = "loop"
    /\ Top.i < n
    /\ Allowed(Top)
    /\ LET new_weight == Top.current_weight + weights[Top.i + 1]
           new_volume == Top.current_volume + volumes[Top.i + 1]
           new_mask == BitOr(Top.current_mask, Shl1(Top.i))
           new_allowed == NewAllowed(Top)
       IN  /\ ~OverCapacity(new_weight, new_volume)
           /\ stack' = Append(NextIteration,
                              Frame(NextIdx(Top), new_mask,
                                    Top.current_payout + payouts[Top.i + 1],
                                    new_weight, new_volume, new_allowed))
           /\ visited' = Append(visited, new_mask)
    /\ UNCHANGED <<inputVars, outerVars, previous, pc, prepVars, best_result, result, compatVars>>

LoopReturn ==
    /\ pc = "search"
    /\ stack # << >>
    /\ Top.at = "loop"
    /\ Top.i >= n
    /\ stack' = Pop
    /\ UNCHANGED <<inputVars, outerVars, previous, pc, prepVars, best_result, visited, result, compatVars>>

(***************************************************************************)
(* After the search: map the best mask back to input positions.            *)
(***************************************************************************)
RECURSIVE SelectedFrom(_, _, _)
SelectedFrom(mask, si, i) ==
    IF i >= Len(si) THEN << >>
    ELSE (IF TestBit(mask, i) THEN <<si[i + 1]>> ELSE << >>)
         \o SelectedFrom(mask, si, i + 1)

(* Faulty variant: returns sorted positions, not input positions. *)
SelectedIndicesUnmapped(mask, si) ==
    SelectedFrom(mask, [k \in 1..Len(si) |-> k - 1], 0)

SelectedIndices(mask, si) == SelectedFrom(mask, si, 0)

Assemble ==
    /\ pc = "search"
    /\ stack = << >>
    /\ result' = OptimizationResult(SelectedIndices(best_result[2], sorted_indices),
                                    best_result[1], best_result[3], best_result[4])
    /\ pc' = "done"
    /\ UNCHANGED <<inputVars, outerVars, previous, prepVars, best_result, stack, visited, compatVars>>

Next ==
    \/ ReturnEmpty
    \/ Prepare
    \/ BacktrackPrune
    \/ BacktrackExpand
    \/ LoopSkipIncompatible
    \/ LoopSkipCapacity
    \/ LoopRecurse
    \/ LoopReturn
    \/ Assemble

Spec == Init /\ [][Next]_vars

(***************************************************************************)
(* The caller calls optimize_load a second time with the same truck and    *)
(* the same list object.  The locals of the new call hold no value until   *)
(* the call assigns them: they keep here whatever the first call left.     *)
(***************************************************************************)
CallAgain ==
    /\ pc = "done"
    /\ previous = NoResult
    /\ previous' = result
    /\ result' = NoResult
    /\ pc' = "start"
    /\ UNCHANGED <<inputVars, outerVars, prepVars, best_result, stack, visited, compatVars>>

NextRepeat == Next \/ CallAgain

SpecRepeat == Init /\ [][NextRepeat]_vars

(***************************************************************************)
(* The compatibility functions called on their own: are_orders_compatible  *)
(* on two orders of the list, and build_compatibility_matrix on the list   *)
(* the search has sorted.                                                  *)
(***************************************************************************)
AreOrdersCompatible ==
    /\ pc = "start"
    /\ \E a \in 1..n : \E b \in 1..n :
          verdict' = [called |-> TRUE, order1 |-> orders[a], order2 |-> orders[b],
                      value |-> are_orders_compatible(orders[a], orders[b])]
    /\ pc' = "compared"
    /\ UNCHANGED <<inputVars, outerVars, previous, prepVars, best_result, stack, visited, result, matrix>>

BuildCompatibilityMatrix ==
    /\ pc = "search"
    /\ matrix' = build_compatibility_matrix(sorted_orders)
    /\ pc' = "built"
    /\ UNCHANGED <<inputVars, outerVars, previous, prepVars, best_result, stack, visited, result, verdict>>

InitCompat ==
    InitWith({[max_weight_lbs |-> MaxTruckWeight, max_volume_cuft |-> MaxTruckVolume]},
             ListsOf(PairOrders))

NextCompat ==
    \/ AreOrdersCompatible
    \/ Prepare
    \/ BuildCompatibilityMatrix

SpecCompat == InitCompat /\ [][NextCompat]_vars

(***************************************************************************)
(* Vocabulary of the properties: sets of input positions, their totals     *)
(* over the input list, and feasibility.                                   *)
(***************************************************************************)
Positions == 0..(n - 1)

Range(seq) == {seq[k] : k \in 1..Len(seq)}

RECURSIVE Total(_, _)
Total(S, field) ==
    IF S = {} THEN 0
    ELSE LET x == CHOOSE x \in S : TRUE
         IN  orders[x + 1][field] + Total(S \ {x}, field)

WithinCapacity(S) ==
    /\ Total(S, "weight_lbs") <= truck.max_weight_lbs
    /\ Total(S, "volume_cuft") <= truck.max_volume_cuft

PairwiseCompatible(S) ==
    \A a \in S : \A b \in S :
        a # b => are_orders_compatible(orders[a + 1], orders[b + 1])

Feasible(S) == WithinCapacity(S) /\ PairwiseCompatible(S)

Returned == pc = "done"

Selection == Range(result.selected_indices)

FitsAlone(a) ==
    /\ orders[a + 1].weight_lbs <= truck.max_weight_lbs
    /\ orders[a + 1].volume_cuft <= truck.max_volume_cuft

(***************************************************************************)
(* C1: when optimize_load has returned, no subset of the input positions   *)
(* that is within weight and volume capacity and pairwise compatible has   *)
(* a total payout strictly greater than the returned total_payout_cents.   *)
(***************************************************************************)
C1_Optimal ==
    Returned =>
        \A S \in SUBSET Positions :
            Feasible(S) => Total(S, "payout_cents") <= result.total_payout_cents

C1_Witness ==
    /\ Returned
    /\ n >= 3
    /\ Cardinality(Selection) >= 2
    /\ \E S \in SUBSET Positions :
          /\ ~WithinCapacity(S)
          /\ Total(S, "payout_cents") > result.total_payout_cents
    /\ \E S \in SUBSET Positions :
          /\ ~PairwiseCompatible(S)
          /\ Total(S, "payout_cents") > result.total_payout_cents

(***************************************************************************)
(* C2: the returned totals are within the truck's weight and volume        *)
(* capacity, and no two selected orders have a combined weight or a        *)
(* combined volume above capacity.                                         *)
(***************************************************************************)
C2_WithinCapacity ==
    Returned =>
        /\ result.total_weight_lbs <= truck.max_weight_lbs
        /\ result.total_volume_cuft <= truck.max_volume_cuft
        /\ \A a \in Selection : \A b \in Selection :
              a # b =>
                /\ orders[a + 1].weight_lbs + orders[b + 1].weight_lbs
                       <= truck.max_weight_lbs
                /\ orders[a + 1].volume_cuft + orders[b + 1].volume_cuft
                       <= truck.max_volume_cuft

C2_Witness ==
    /\ Returned
    /\ Selection # {}
    /\ \E a \in Positions : \E b \in Positions :
          /\ a # b /\ FitsAlone(a) /\ FitsAlone(b)
          /\ are_orders_compatible(orders[a + 1], orders[b + 1])
          /\ orders[a + 1].weight_lbs + orders[b + 1].weight_lbs
                 > truck.max_weight_lbs
    /\ \E a \in Positions : \E b \in Positions :
          /\ a # b /\ FitsAlone(a) /\ FitsAlone(b)
          /\ are_orders_compatible(orders[a + 1], orders[b + 1])
          /\ orders[a + 1].volume_cuft + orders[b + 1].volume_cuft
                 > truck.max_volume_cuft

(***************************************************************************)
(* C3: every two distinct selected orders are compatible, so the           *)
(* selection is all hazmat or all non-hazmat; this holds also when the     *)
(* compatibility relation of the input is not transitive.                  *)
(***************************************************************************)
C3_PairwiseCompatible ==
    Returned =>
        /\ PairwiseCompatible(Selection)
        /\ \A a \in Selection : \A b \in Selection :
              orders[a + 1].is_hazmat = orders[b + 1].is_hazmat

C3_Witness ==
    /\ Returned
    /\ WithinCapacity(Positions)
    /\ Cardinality(Selection) = 2
    /\ \E a \in Positions : \E b \in Positions : \E c \in Positions :
          /\ are_orders_compatible(orders[a + 1], orders[b + 1])
          /\ are_orders_compatible(orders[b + 1], orders[c + 1])
          /\ ~are_orders_compatible(orders[a + 1], orders[c + 1])
          /\ orders[a + 1].payout_cents > 0
          /\ orders[c + 1].payout_cents > 0

(***************************************************************************)
(* C4: selected_indices are distinct positions of the input list, and the  *)
(* returned totals are the sums of payout, weight and volume of the input  *)
(* orders at exactly those positions.                                      *)
(***************************************************************************)
C4_IndicesAndTotals ==
    Returned =>
        /\ Selection \subseteq Positions
        /\ Cardinality(Selection) = Len(result.selected_indices)
        /\ result.total_payout_cents = Total(Selection, "payout_cents")
        /\ result.total_weight_lbs = Total(Selection, "weight_lbs")
        /\ result.total_volume_cuft = Total(Selection, "volume_cuft")

C4_Witness ==
    /\ Returned
    /\ Len(result.selected_indices) >= 2
    /\ result.selected_indices[1] > result.selected_indices[2]
    /\ orders[result.selected_indices[1] + 1].weight_lbs
           # orders[result.selected_indices[2] + 1].weight_lbs
    /\ Selection # Positions

(***************************************************************************)
(* C5: for an empty candidate list the result is the empty solution:       *)
(* no selected index and payout, weight and volume all 0, whatever the     *)
(* capacity.                                                               *)
(***************************************************************************)
C5_EmptyInput ==
    (Returned /\ n = 0) =>
        /\ result.selected_indices = << >>
        /\ result.total_payout_cents = 0
        /\ result.total_weight_lbs = 0
        /\ result.total_volume_cuft = 0

C5_Witness ==
    /\ Returned
    /\ n = 0
    /\ truck.max_weight_lbs > 1
    /\ truck.max_volume_cuft > 1

(***************************************************************************)
(* C6: the returned payout is never negative, and when no non-empty        *)
(* subset of the candidates is feasible the result is the empty solution   *)
(* with payout, weight and volume 0.                                       *)
(***************************************************************************)
C6_EmptyFloor ==
    Returned =>
        /\ result.total_payout_cents >= 0
        /\ (\A S \in SUBSET Positions : S # {} => ~Feasible(S)) =>
              /\ result.selected_indices = << >>
              /\ result.total_payout_cents = 0
              /\ result.total_weight_lbs = 0
              /\ result.total_volume_cuft = 0

C6_Witness ==
    /\ Returned
    /\ n >= 2
    /\ \A a \in Positions : ~FitsAlone(a) /\ orders[a + 1].payout_cents > 0

(***************************************************************************)
(* C7: a second call of optimize_load with the same truck and the same     *)
(* list returns what the first call returned: the same selected indices    *)
(* and the same total payout, weight and volume.                           *)
(***************************************************************************)
C7_Reproducible ==
    (Returned /\ previous # NoResult) =>
        /\ result.selected_indices = previous.selected_indices
        /\ result.total_payout_cents = previous.total_payout_cents
        /\ result.total_weight_lbs = previous.total_weight_lbs
        /\ result.total_volume_cuft = previous.total_volume_cuft

C7_Witness ==
    /\ Returned
    /\ previous # NoResult
    /\ Cardinality(Selection) >= 2
    /\ Selection # Positions
    /\ sorted_indices # [k \in 1..n |-> k - 1]
    /\ \E a \in Positions : \E b \in Positions :
          /\ a < b /\ a \in Selection /\ b \notin Selection
          /\ orders[a + 1].payout_cents = orders[b + 1].payout_cents

(***************************************************************************)
(* A bound on the steps left.  CallCost(idx) bounds the steps of a call    *)
(* backtrack(idx, ...): its entry, for every i from idx to n - 1 one       *)
(* iteration and the call it may make, and its return.  LoopCost(i) bounds *)
(* the steps left to a call whose loop is at i.                            *)
(***************************************************************************)
RECURSIVE CallCost(_)
RECURSIVE LoopCost(_)
CallCost(idx) == 1 + LoopCost(idx)

LoopCost(i) == IF i >= n THEN 1 ELSE 1 + CallCost(i + 1) + LoopCost(i + 1)

RECURSIVE StackCost(_)
StackCost(k) ==
    IF k = 0 THEN 0
    ELSE StackCost(k - 1)
         + (IF stack[k].at = "enter" THEN CallCost(stack[k].idx)
            ELSE LoopCost(stack[k].i))

StepsLeft ==
    CASE pc = "start" -> CallCost(0) + 2
      [] pc = "search" -> StackCost(Len(stack)) + 1
      [] OTHER -> 0

WellFormed(r) ==
    /\ r.selected_indices \in Seq(Positions)
    /\ r.total_payout_cents \in Nat
    /\ r.total_weight_lbs \in Nat
    /\ r.total_volume_cuft \in Nat

(***************************************************************************)
(* CanStep: some step of optimize_load is possible.  Prepare assigns every *)
(* variable a value that is always defined, so it is possible exactly when *)
(* its guard holds.                                                        *)
(***************************************************************************)
CanStep ==
    \/ pc = "start" /\ n > 0
    \/ ENABLED (\/ ReturnEmpty
                \/ BacktrackPrune
                \/ BacktrackExpand
                \/ LoopSkipIncompatible
                \/ LoopSkipCapacity
                \/ LoopRecurse
                \/ LoopReturn
                \/ Assemble)

(***************************************************************************)
(* The call is not stuck, the bound on the steps left is a natural number, *)
(* every nested call of backtrack has a strictly larger idx than its       *)
(* caller, at most n calls are nested below the first one, no subset is    *)
(* the current_mask of two calls, and a returned result is well formed.    *)
(***************************************************************************)
C8_Running ==
    /\ pc \in {"start", "search", "done"}
    /\ pc # "done" => CanStep
    /\ StepsLeft \in Nat
    /\ \A k \in 1..Len(stack) : stack[k].idx \in 0..n
    /\ \A k \in 1..(Len(stack) - 1) : stack[k + 1].idx > stack[k].idx
    /\ Len(stack) <= n + 1
    /\ Cardinality(Range(visited)) = Len(visited)
    /\ Returned => WellFormed(result)

(***************************************************************************)
(* C8: from every valid input of 0 to MaxOrders orders optimize_load runs  *)
(* without getting stuck and terminates with a well-formed result: before  *)
(* and after every step C8_Running holds, and every step lowers StepsLeft. *)
(* Each nested call of backtrack has a strictly larger idx, so at most n   *)
(* calls are nested and every subset is visited at most once.              *)
(***************************************************************************)
C8_Terminates ==
    [][C8_Running /\ C8_Running' /\ StepsLeft' < StepsLeft]_vars

C8_Witness ==
    /\ Returned
    /\ n >= 3
    /\ Len(visited) >= 6
    /\ (2 ^ n - 1) \in Range(visited)
    /\ Cardinality(Selection) = n

(***************************************************************************)
(* The city a location string of the model names, whatever its case and    *)
(* surrounding blanks.                                                     *)
(***************************************************************************)
City(location) ==
    CASE location \in {LosAngeles, LosAngelesPadded} -> "los angeles"
      [] location = SanFrancisco -> "san francisco"
      [] location \in {NewYork, NewYorkLower} -> "new york"

(***************************************************************************)
(* C9: are_orders_compatible(a, b) returns true exactly when the two       *)
(* origins name the same city and the two destinations name the same       *)
(* city, each pickup date is no later than each delivery date (the latest  *)
(* pickup is no later than the earliest delivery), and the hazmat flags    *)
(* are equal; it returns false as soon as one of the three fails.          *)
(***************************************************************************)
C9_CompatibleIff ==
    verdict.called =>
        LET a == verdict.order1
            b == verdict.order2
            route == /\ City(a.origin) = City(b.origin)
                     /\ City(a.destination) = City(b.destination)
            time == /\ a.pickup_date <= a.delivery_date
                    /\ a.pickup_date <= b.delivery_date
                    /\ b.pickup_date <= a.delivery_date
                    /\ b.pickup_date <= b.delivery_date
            hazmat == a.is_hazmat = b.is_hazmat
        IN  /\ verdict.value = (route /\ time /\ hazmat)
            /\ (~route \/ ~time \/ ~hazmat) => verdict.value = FALSE

C9_Witness ==
    /\ verdict.called
    /\ verdict.value = TRUE
    /\ verdict.order1.origin # verdict.order2.origin
    /\ verdict.order1.destination # verdict.order2.destination
    /\ verdict.order1.pickup_date # verdict.order2.pickup_date
    /\ verdict.order1.is_hazmat

(***************************************************************************)
(* C10: once the masks are built, bit j of compatible_mask[i] is set iff   *)
(* i = j or the orders at sorted positions i and j are compatible; bit i   *)
(* of compatible_mask[i] is set; bit j of compatible_mask[i] equals bit i  *)
(* of compatible_mask[j]; and build_compatibility_matrix over the same     *)
(* list gives matrix[i][j] equal to bit j of compatible_mask[i].           *)
(***************************************************************************)
C10_MaskRelation ==
    pc \in {"search", "built"} =>
        \A i \in Positions : \A j \in Positions :
            /\ TestBit(compatible_mask[i + 1], j)
                   = (i = j \/ are_orders_compatible(sorted_orders[i + 1],
                                                     sorted_orders[j + 1]))
            /\ TestBit(compatible_mask[i + 1], i)
            /\ TestBit(compatible_mask[i + 1], j) = TestBit(compatible_mask[j + 1], i)
            /\ compatible_mask[i + 1] < 2 ^ n
            /\ pc = "built" => matrix[i + 1][j + 1] = TestBit(compatible_mask[i + 1], j)

C10_Witness ==
    /\ pc = "built"
    /\ n >= 3
    /\ \E i \in Positions : \E j \in Positions : \E k \in Positions :
          /\ i < j /\ j < k
          /\ matrix[i + 1][j + 1] /\ matrix[j + 1][k + 1] /\ ~matrix[i + 1][k + 1]
          /\ sorted_orders[i + 1].origin # sorted_orders[j + 1].origin
          /\ sorted_orders[j + 1].pickup_date # sorted_orders[k + 1].pickup_date

Paying == {a \in Positions : orders[a + 1].payout_cents > 0}

AllFitTogether == PairwiseCompatible(Positions) /\ WithinCapacity(Positions)

(***************************************************************************)
(* C11 as stated: when the candidates are all pairwise compatible and      *)
(* their combined weight and volume fit the truck, every candidate is      *)
(* selected and the totals are the sums over all candidates.               *)
(***************************************************************************)
C11_SelectsEveryCandidate ==
    (Returned /\ AllFitTogether) =>
        /\ Selection = Positions
        /\ result.total_payout_cents = Total(Positions, "payout_cents")
        /\ result.total_weight_lbs = Total(Positions, "weight_lbs")
        /\ result.total_volume_cuft = Total(Positions, "volume_cuft")

(***************************************************************************)
(* C11: when the candidates are all pairwise compatible and their combined *)
(* weight and volume fit the truck, optimize_load selects exactly the      *)
(* candidates whose payout is positive, and the returned totals are the    *)
(* sums over those; so when every payout is positive it selects every      *)
(* candidate and the totals are the sums over all candidates.              *)
(***************************************************************************)
C11_SelectsEveryPaying ==
    (Returned /\ AllFitTogether) =>
        /\ Selection = Paying
        /\ Cardinality(Selection) = Len(result.selected_indices)
        /\ result.total_payout_cents = Total(Positions, "payout_cents")
        /\ result.total_weight_lbs = Total(Paying, "weight_lbs")
        /\ result.total_volume_cuft = Total(Paying, "volume_cuft")
        /\ Paying = Positions =>
              /\ Selection = Positions
              /\ result.total_weight_lbs = Total(Positions, "weight_lbs")
              /\ result.total_volume_cuft = Total(Positions, "volume_cuft")

C11_Witness ==
    /\ Returned
    /\ AllFitTogether
    /\ n >= 3
    /\ Paying = Positions
    /\ Selection = Positions
    /\ orders[1].payout_cents < orders[2].payout_cents
    /\ Total(Positions, "weight_lbs") = truck.max_weight_lbs

(***************************************************************************)
(* C12 as stated: a single valid order that fits the truck is selected,    *)
(* selected_indices == [0], and the totals are its payout, weight and      *)
(* volume.                                                                 *)
(***************************************************************************)
C12_SingleSelected ==
    (Returned /\ n = 1 /\ FitsAlone(0)) =>
        /\ result.selected_indices = <<0>>
        /\ result.total_payout_cents = orders[1].payout_cents
        /\ result.total_weight_lbs = orders[1].weight_lbs
        /\ result.total_volume_cuft = orders[1].volume_cuft

(***************************************************************************)
(* C12: a single valid order that fits the truck and has a positive payout *)
(* is selected, selected_indices == [0], and the totals are its payout,    *)
(* weight and volume; a single order of payout 0 is not selected, and the  *)
(* result is then the empty solution with totals 0.                        *)
(***************************************************************************)
C12_SinglePayingSelected ==
    (Returned /\ n = 1 /\ FitsAlone(0)) =>
        IF orders[1].payout_cents > 0
        THEN /\ result.selected_indices = <<0>>
             /\ result.total_payout_cents = orders[1].payout_cents
             /\ result.total_weight_lbs = orders[1].weight_lbs
             /\ result.total_volume_cuft = orders[1].volume_cuft
        ELSE result = EmptyResult

C12_Witness ==
    /\ Returned
    /\ n = 1
    /\ FitsAlone(0)
    /\ orders[1].payout_cents > 1
    /\ orders[1].weight_lbs > 1
    /\ orders[1].weight_lbs = truck.max_weight_lbs
    /\ result.selected_indices = <<0>>

(***************************************************************************)
(* optimize_load as one function of its arguments: the recursion of        *)
(* backtrack and its for loop run to completion.  backtrack(env, f, best)  *)
(* is best_result when the call with the arguments of frame f returns,     *)
(* best being best_result when it is made; for_loop(env, f, best) is the   *)
(* same for the iterations from f.i on.  env holds the locals built before *)
(* the search.                                                             *)
(***************************************************************************)
RECURSIVE backtrack(_, _, _)
RECURSIVE for_loop(_, _, _)
backtrack(env, f, best) ==
    LET updated == UpdateBest(f, best)
    IN  IF f.current_payout + env.suffix_payout[f.idx + 1] <= updated[1]
        THEN updated
        ELSE for_loop(env, [f EXCEPT !.i = f.idx], updated)

for_loop(env, f, best) ==
    IF f.i >= Len(env.sorted_orders) THEN best
    ELSE LET order == env.sorted_orders[f.i + 1]
             new_weight == f.current_weight + order.weight_lbs
             new_volume == f.current_volume + order.volume_cuft
             new_mask == BitOr(f.current_mask, Shl1(f.i))
             new_allowed == BitAnd(f.allowed_mask, env.compatible_mask[f.i + 1])
             after == [f EXCEPT !.i = f.i + 1]
         IN  IF ~TestBit(f.allowed_mask, f.i) THEN for_loop(env, after, best)
             ELSE IF \/ new_weight > env.truck.max_weight_lbs
                     \/ new_volume > env.truck.max_volume_cuft
                  THEN for_loop(env, after, best)
             ELSE for_loop(env, after,
                           backtrack(env,
                                     Frame(f.i + 1, new_mask,
                                           f.current_payout + order.payout_cents,
                                           new_weight, new_volume, new_allowed),
                                     best))

optimize_load(t, os) ==
    IF Len(os) = 0 THEN EmptyResult
    ELSE LET env == [truck |-> t,
                     sorted_orders |-> SortedOrders(os),
                     compatible_mask |-> CompatibleMask(SortedOrders(os)),
                     suffix_payout |-> SuffixPayout(SortedOrders(os))]
             best == backtrack(env, Frame(0, 0, 0, 0, 0, Shl1(Len(os)) - 1),
                               <<0, 0, 0, 0>>)
         IN  OptimizationResult(SelectedIndices(best[2], SortedIndices(os)),
                                best[1], best[3], best[4])

(***************************************************************************)
(* Two calls of optimize_load in two threads.  Every name the call uses is *)
(* a parameter or a local of optimize_load_backtracking (best_result and   *)
(* the frames of backtrack included), so each thread has its own: when the *)
(* scheduler switches threads the locals of the running call are set aside *)
(* and those of the other call come back.  The module has no global the    *)
(* call writes.                                                            *)
(***************************************************************************)
CallLocals ==
    [truck |-> truck, orders |-> orders, pc |-> pc,
     sorted_indices |-> sorted_indices, sorted_orders |-> sorted_orders,
     compatible_mask |-> compatible_mask, suffix_payout |-> suffix_payout,
     best_result |-> best_result, stack |-> stack, visited |-> visited,
     result |-> result]

FreshCall(t, os) ==
    [truck |-> t, orders |-> os, pc |-> "start",
     sorted_indices |-> << >>, sorted_orders |-> << >>,
     compatible_mask |-> << >>, suffix_payout |-> << >>,
     best_result |-> <<0, 0, 0, 0>>, stack |-> << >>, visited |-> << >>,
     result |-> NoResult]

(* Faulty variant: best_result is a module-level list both calls write. *)
ResumedBestShared(call) == best_result

ResumedBest(call) == call.best_result

Switch ==
    /\ suspended # NoCall
    /\ running' = 3 - running
    /\ suspended' = CallLocals
    /\ truck' = suspended.truck
    /\ orders' = suspended.orders
    /\ pc' = suspended.pc
    /\ sorted_indices' = suspended.sorted_indices
    /\ sorted_orders' = suspended.sorted_orders
    /\ compatible_mask' = suspended.compatible_mask
    /\ suffix_payout' = suspended.suffix_payout
    /\ best_result' = ResumedBest(suspended)
    /\ stack' = suspended.stack
    /\ visited' = suspended.visited
    /\ result' = suspended.result
    /\ UNCHANGED <<given, handlerVars, dp, previous, compatVars>>

ThreadOrders ==
    ValidOrders(0..MaxPayout, 1..MaxWeight, {1}, {LosAngeles}, {NewYork},
                {<<1, MaxDate>>}, {FALSE})
        \cup ValidOrders({MaxPayout}, {1}, {1}, {LosAngeles}, {NewYork},
                         {<<1, MaxDate>>}, {TRUE})

ThreadInputs ==
    [truck : {t \in Trucks : t.max_weight_lbs > 1 /\ t.max_volume_cuft = MaxTruckVolume},
     orders : UNION {[1..k -> ThreadOrders] : k \in 0..MaxThreadOrders}]

InitThreads ==
    /\ given \in [1..2 -> ThreadInputs]
    /\ running = 1
    /\ truck = given[1].truck
    /\ orders = given[1].orders
    /\ suspended = FreshCall(given[2].truck, given[2].orders)
    /\ pc = "start"
    /\ sorted_indices = << >>
    /\ sorted_orders = << >>
    /\ compatible_mask = << >>
    /\ suffix_payout = << >>
    /\ best_result = <<0, 0, 0, 0>>
    /\ stack = << >>
    /\ visited = << >>
    /\ result = NoResult
    /\ matrix = << >>
    /\ verdict = NoVerdict
    /\ previous = NoResult
    /\ request = NoRequest
    /\ response = NoResponse
    /\ dp = NoDp

NextThreads == Next \/ Switch

SpecThreads == InitThreads /\ [][NextThreads]_vars

CallOf(thread) == IF thread = running THEN CallLocals ELSE suspended

(***************************************************************************)
(* C13: when the steps of two calls of optimize_load interleave in any     *)
(* order, each call still holds the truck and the list it was given,       *)
(* unmodified, and when it has returned its result is the result           *)
(* optimize_load gives for those arguments when run on its own.            *)
(***************************************************************************)
C13_Independent ==
    \A thread \in 1..2 :
        /\ CallOf(thread).truck = given[thread].truck
        /\ CallOf(thread).orders = given[thread].orders
        /\ CallOf(thread).pc = "done" =>
              CallOf(thread).result
                  = optimize_load(given[thread].truck, given[thread].orders)

C13_Witness ==
    /\ running = 1
    /\ pc = "done"
    /\ Len(result.selected_indices) >= 2
    /\ Len(visited) >= 3
    /\ suspended.pc = "search"
    /\ Len(suspended.visited) >= 2
    /\ Len(suspended.stack) >= 2
    /\ suspended.best_result[1] > 0
    /\ suspended.best_result[1] < best_result[1]
    /\ given[1] # given[2]

(***************************************************************************)
(* main.py, optimize_truck_load: the handler of POST optimize.  The        *)
(* request has passed the validation of models.py (at most 25 orders, so   *)
(* the handler's own test of len(orders) > MAX_ORDERS cannot succeed).     *)
(* A percentage is kept in hundredths of a percent: round(x, 2).           *)
(***************************************************************************)
FitsTruck(t, order) ==
    /\ ~(order.weight_lbs > t.max_weight_lbs)
    /\ ~(order.volume_cuft > t.max_volume_cuft)

valid_orders(t, os) == SelectSeq(os, LAMBDA order : FitsTruck(t, order))

(* Faulty variant: order_map is keyed by the position in the request. *)
selected_order_ids_by_request_position(r, vo, os) ==
    [k \in 1..Len(r.selected_indices) |-> os[r.selected_indices[k] + 1].id]

selected_order_ids(r, vo, os) ==
    [k \in 1..Len(r.selected_indices) |-> vo[r.selected_indices[k] + 1].id]

Utilization(total, capacity) ==
    LET scaled == total * 10000
        q == scaled \div capacity
        r == scaled % capacity
    IN  IF 2 * r > capacity \/ (2 * r = capacity /\ q % 2 = 1) THEN q + 1 ELSE q

EmptyResponse(t) ==
    [sent |-> TRUE, truck_id |-> t.id, selected_order_ids |-> << >>,
     total_payout_cents |-> 0, total_weight_lbs |-> 0, total_volume_cuft |-> 0,
     utilization_weight_percent |-> 0, utilization_volume_percent |-> 0]

OptimizeResponse(t, ids, r) ==
    [sent |-> TRUE, truck_id |-> t.id, selected_order_ids |-> ids,
     total_payout_cents |-> r.total_payout_cents,
     total_weight_lbs |-> r.total_weight_lbs,
     total_volume_cuft |-> r.total_volume_cuft,
     utilization_weight_percent |-> Utilization(r.total_weight_lbs, t.max_weight_lbs),
     utilization_volume_percent |-> Utilization(r.total_volume_cuft, t.max_volume_cuft)]

HandlerEmpty ==
    /\ pc = "request"
    /\ request.orders = << >>
    /\ response' = EmptyResponse(request.truck)
    /\ pc' = "responded"
    /\ UNCHANGED <<inputVars, request, dp, threadVars, previous, prepVars, best_result, stack, visited, result, compatVars>>

HandlerNoneFit ==
    /\ pc = "request"
    /\ request.orders # << >>
    /\ valid_orders(request.truck, request.orders) = << >>
    /\ response' = EmptyResponse(request.truck)
    /\ pc' = "responded"
    /\ UNCHANGED <<inputVars, request, dp, threadVars, previous, prepVars, best_result, stack, visited, result, compatVars>>

HandlerOptimize ==
    /\ pc = "request"
    /\ request.orders # << >>
    /\ valid_orders(request.truck, request.orders) # << >>
    /\ truck' = request.truck
    /\ orders' = valid_orders(request.truck, request.orders)
    /\ pc' = "start"
    /\ UNCHANGED <<outerVars, previous, prepVars, best_result, stack, visited, result, compatVars>>

HandlerRespond ==
    /\ pc = "done"
    /\ request # NoRequest
    /\ response' = OptimizeResponse(truck,
                                    selected_order_ids(result, orders, request.orders),
                                    result)
    /\ pc' = "responded"
    /\ UNCHANGED <<inputVars, request, dp, threadVars, previous, prepVars, best_result, stack, visited, result, compatVars>>

OrderIds == {"a", "b", "c"}

TruckIds == {"t"}

WithId(record, id) == [x \in {"id"} \cup DOMAIN record |-> IF x = "id" THEN id ELSE record[x]]

SizedOrders ==
    ValidOrders(1..MaxPayout, {1, MaxTruckWeight}, {1, MaxTruckVolume},
                {LosAngeles}, {NewYork}, {<<1, MaxDate>>}, {FALSE})

SmallHazmatOrders ==
    ValidOrders(1..MaxPayout, {1}, {1}, {LosAngeles}, {NewYork},
                {<<1, MaxDate>>}, {TRUE})

RequestOrders ==
    {WithId(order, id) : order \in SizedOrders \cup SmallHazmatOrders, id \in OrderIds}

RequestTrucks ==
    {WithId(t, id) :
        t \in {t \in Trucks : t.max_weight_lbs > 1 /\ t.max_volume_cuft > 1},
        id \in TruckIds}

Requests ==
    [received : {TRUE}, truck : RequestTrucks, orders : ListsOf(RequestOrders)]

InitHandler ==
    /\ request \in Requests
    /\ response = NoResponse
    /\ pc = "request"
    /\ truck = request.truck
    /\ orders = << >>
    /\ sorted_indices = << >>
    /\ sorted_orders = << >>
    /\ compatible_mask = << >>
    /\ suffix_payout = << >>
    /\ best_result = <<0, 0, 0, 0>>
    /\ stack = << >>
    /\ visited = << >>
    /\ result = NoResult
    /\ matrix = << >>
    /\ verdict = NoVerdict
    /\ previous = NoResult
    /\ dp = NoDp
    /\ running = 1
    /\ suspended = NoCall
    /\ given = << >>

(* The handler never calls optimize_load with an empty list. *)
NextHandler ==
    \/ HandlerEmpty
    \/ HandlerNoneFit
    \/ HandlerOptimize
    \/ Prepare
    \/ BacktrackPrune
    \/ BacktrackExpand
    \/ LoopSkipIncompatible
    \/ LoopSkipCapacity
    \/ LoopRecurse
    \/ LoopReturn
    \/ Assemble
    \/ HandlerRespond

SpecHandler == InitHandler /\ [][NextHandler]_vars

(***************************************************************************)
(* Vocabulary of C14: the positions of the request whose order fits the    *)
(* truck alone, the j-th smallest member of a set of positions, and the    *)
(* number of times an id occurs in a list of ids and among the orders at   *)
(* a set of positions of the request.                                      *)
(***************************************************************************)
Fitting ==
    {k \in 1..Len(request.orders) :
        /\ request.orders[k].weight_lbs <= request.truck.max_weight_lbs
        /\ request.orders[k].volume_cuft <= request.truck.max_volume_cuft}

Nth(S, j) == CHOOSE x \in S : Cardinality({y \in S : y < x}) = j - 1

Occurrences(ids, id) == Cardinality({k \in 1..Len(ids) : ids[k] = id})

OccurrencesAt(P, id) == Cardinality({k \in P : request.orders[k].id = id})

RECURSIVE RequestTotal(_, _)
RequestTotal(P, field) ==
    IF P = {} THEN 0
    ELSE LET x == CHOOSE x \in P : TRUE
         IN  request.orders[x][field] + RequestTotal(P \ {x}, field)

(***************************************************************************)
(* C14: while optimize_load runs for the handler, its list is the orders   *)
(* of the request that individually fit the truck, in their original       *)
(* relative order, and its truck is the truck of the request.  In the      *)
(* response, the k-th id is the id of the filtered order at the k-th       *)
(* selected index; the ids returned are the ids of a set of orders of the  *)
(* request that each fit the truck alone, and the response totals are the  *)
(* sums over those orders; when the ids of the request are distinct, the   *)
(* id of an order that alone exceeds capacity is not in the response.      *)
(***************************************************************************)
C14_HandlerFilters ==
    /\ pc \in {"start", "search", "done"} =>
          /\ truck = request.truck
          /\ Len(orders) = Cardinality(Fitting)
          /\ \A j \in 1..Len(orders) : orders[j] = request.orders[Nth(Fitting, j)]
    /\ (response.sent /\ result # NoResult) =>
          /\ Len(response.selected_order_ids) = Len(result.selected_indices)
          /\ \A k \in 1..Len(result.selected_indices) :
                response.selected_order_ids[k]
                    = orders[result.selected_indices[k] + 1].id
    /\ response.sent =>
          /\ \E P \in SUBSET Fitting :
                /\ \A id \in OrderIds :
                      OccurrencesAt(P, id) = Occurrences(response.selected_order_ids, id)
                /\ response.total_payout_cents = RequestTotal(P, "payout_cents")
                /\ response.total_weight_lbs = RequestTotal(P, "weight_lbs")
                /\ response.total_volume_cuft = RequestTotal(P, "volume_cuft")
          /\ (\A a \in 1..Len(request.orders) : \A b \in 1..Len(request.orders) :
                  a # b => request.orders[a].id # request.orders[b].id) =>
                \A k \in 1..Len(request.orders) :
                    k \notin Fitting =>
                        Occurrences(response.selected_order_ids, request.orders[k].id) = 0

C14_Witness ==
    /\ response.sent
    /\ Len(request.orders) >= 3
    /\ 1 \notin Fitting
    /\ Len(response.selected_order_ids) >= 2
    /\ response.selected_order_ids[1] # response.selected_order_ids[2]
    /\ request.orders[1].id \notin Range(response.selected_order_ids)
    /\ result.selected_indices[1] > result.selected_indices[2]

(***************************************************************************)
(* Vocabulary of the search: the sorted positions a mask holds, totals     *)
(* over the sorted list, and feasibility of a set of sorted positions.     *)
(***************************************************************************)
MaskSet(mask) == {k \in Positions : TestBit(mask, k)}

RECURSIVE SortedTotal(_, _)
SortedTotal(S, field) ==
    IF S = {} THEN 0
    ELSE LET x == CHOOSE x \in S : TRUE
         IN  sorted_orders[x + 1][field] + SortedTotal(S \ {x}, field)

SortedCompatible(S) ==
    \A a \in S : \A b \in S :
        a # b => are_orders_compatible(sorted_orders[a + 1], sorted_orders[b + 1])

SortedFeasible(S) ==
    /\ SortedTotal(S, "weight_lbs") <= truck.max_weight_lbs
    /\ SortedTotal(S, "volume_cuft") <= truck.max_volume_cuft
    /\ SortedCompatible(S)

SuffixSums ==
    (pc \in {"search", "done"} /\ n > 0) =>
        /\ Len(suffix_payout) = n + 1
        /\ suffix_payout[n + 1] = 0
        /\ \A i \in 0..n :
              suffix_payout[i + 1] = SortedTotal({k \in Positions : k >= i}, "payout_cents")

EarlyReturn ==
    /\ pc = "search"
    /\ stack # << >>
    /\ Top.at = "enter"
    /\ Len(stack') < Len(stack)

(***************************************************************************)
(* C15: suffix_payout[i] is the sum of the payouts at sorted positions     *)
(* >= i, with suffix_payout[n] = 0; and in every step in which a call of   *)
(* backtrack returns early on the upper-bound check, no feasible superset  *)
(* of its current_mask that adds only positions >= idx has a payout        *)
(* strictly greater than the best payout recorded at that moment.          *)
(***************************************************************************)
C15_PruningSound ==
    [][/\ SuffixSums'
       /\ EarlyReturn =>
             /\ Top.current_payout + suffix_payout[Top.idx + 1] <= best_result'[1]
             /\ \A E \in SUBSET {k \in Positions : k >= Top.idx} :
                   SortedFeasible(MaskSet(Top.current_mask) \cup E) =>
                       SortedTotal(MaskSet(Top.current_mask) \cup E, "payout_cents")
                           <= best_result'[1]]_vars

(***************************************************************************)
(* A call made for position Top.i - 1 has just returned early: it made no  *)
(* call, and its payout plus the suffix sum at its idx is within the best  *)
(* payout; a feasible extension of it with a positive payout was cut.      *)
(***************************************************************************)
C15_Witness ==
    /\ pc = "search"
    /\ stack # << >>
    /\ Top.at = "loop"
    /\ Top.i >= 1
    /\ Top.i < n
    /\ visited[Len(visited)] = BitOr(Top.current_mask, Shl1(Top.i - 1))
    /\ suffix_payout[Top.i + 1] > 0
    /\ SortedTotal(MaskSet(visited[Len(visited)]), "payout_cents")
           + suffix_payout[Top.i + 1] <= best_result[1]
    /\ \E E \in SUBSET {k \in Positions : k >= Top.i} :
          /\ E # {}
          /\ SortedFeasible(MaskSet(visited[Len(visited)]) \cup E)
          /\ SortedTotal(E, "payout_cents") > 0

(***************************************************************************)
(* C16: for every call of backtrack in progress, bit j of allowed_mask is  *)
(* set iff bit j is set in compatible_mask[k] of every position k chosen   *)
(* in current_mask (all n bits, and no other, when nothing is chosen);     *)
(* hence a position i >= idx has its bit set iff order i is compatible     *)
(* with every chosen order; the chosen positions are below idx, pairwise   *)
(* compatible and within capacity, and current_payout, current_weight and  *)
(* current_volume are their totals.                                        *)
(***************************************************************************)
C16_AllowedMask ==
    pc = "search" =>
        \A d \in 1..Len(stack) :
            LET f == stack[d]
                chosen == MaskSet(f.current_mask)
            IN  /\ f.allowed_mask \in 0..(2 ^ n - 1)
                /\ f.current_mask \in 0..(2 ^ n - 1)
                /\ \A j \in Positions :
                      TestBit(f.allowed_mask, j)
                          = (\A k \in chosen : TestBit(compatible_mask[k + 1], j))
                /\ chosen = {} => f.allowed_mask = 2 ^ n - 1
                /\ \A i \in Positions :
                      i >= f.idx =>
                          TestBit(f.allowed_mask, i)
                              = (\A k \in chosen :
                                    are_orders_compatible(sorted_orders[i + 1],
                                                          sorted_orders[k + 1]))
                /\ \A k \in chosen : k < f.idx
                /\ SortedFeasible(chosen)
                /\ f.current_payout = SortedTotal(chosen, "payout_cents")
                /\ f.current_weight = SortedTotal(chosen, "weight_lbs")
                /\ f.current_volume = SortedTotal(chosen, "volume_cuft")

C16_Witness ==
    /\ pc = "search"
    /\ Len(stack) >= 3
    /\ Top.at = "enter"
    /\ Top.idx < n
    /\ Cardinality(MaskSet(Top.current_mask)) >= 2
    /\ \E a \in MaskSet(Top.current_mask) : \E b \in MaskSet(Top.current_mask) :
          /\ are_orders_compatible(sorted_orders[a + 1], sorted_orders[Top.idx + 1])
          /\ ~are_orders_compatible(sorted_orders[b + 1], sorted_orders[Top.idx + 1])
    /\ ~TestBit(Top.allowed_mask, Top.idx)

VisitedPayout(j) == SortedTotal(MaskSet(visited[j]), "payout_cents")

(***************************************************************************)
(* The returned selection is the first call of backtrack, in call order,   *)
(* whose current_mask has the greatest payout of all the calls made.       *)
(***************************************************************************)
FirstBestReturned ==
    \E k \in 1..Len(visited) :
        /\ visited[k] = best_result[2]
        /\ VisitedPayout(k) = result.total_payout_cents
        /\ \A j \in 1..Len(visited) : VisitedPayout(j) <= VisitedPayout(k)
        /\ \A j \in 1..(k - 1) : VisitedPayout(j) < VisitedPayout(k)
        /\ Selection = {sorted_indices[p + 1] : p \in MaskSet(visited[k])}

(***************************************************************************)
(* C17: in every step of the search the best record either stays as it is  *)
(* or becomes the selection of the call being entered, whose payout is     *)
(* strictly greater than the recorded one; so the recorded best payout     *)
(* never decreases, and optimize_load_backtracking returns, of the subsets *)
(* it visited that reach the maximum payout, the one visited first in its  *)
(* depth-first traversal of the payout-descending order.                   *)
(***************************************************************************)
C17_FirstBestWins ==
    [][/\ best_result'[1] >= best_result[1]
       /\ best_result' # best_result =>
             /\ best_result'[1] > best_result[1]
             /\ pc = "search" /\ stack # << >> /\ Top.at = "enter"
             /\ best_result' = <<Top.current_payout, Top.current_mask,
                                 Top.current_weight, Top.current_volume>>
       /\ (pc' = "done" /\ n > 0) => FirstBestReturned']_vars

C17_Witness ==
    /\ Returned
    /\ n >= 3
    /\ result.total_payout_cents > 0
    /\ \E j \in 1..Len(visited) : \E k \in 1..Len(visited) :
          /\ j < k
          /\ visited[j] = best_result[2]
          /\ VisitedPayout(k) = VisitedPayout(j)
          /\ Cardinality(MaskSet(visited[j])) >= 2

(***************************************************************************)
(* optimize_load_bitmask_dp: every mask from 1 to (1 << n) - 1 in turn,    *)
(* over the list as given (not sorted).  LowestBit(bits) is                *)
(* (bits & -bits).bit_length() - 1 and ClearLowest(bits) is                *)
(* bits & (bits - 1).                                                      *)
(***************************************************************************)
RECURSIVE LowestBit(_)
LowestBit(bits) == IF bits % 2 = 1 THEN 0 ELSE 1 + LowestBit(bits \div 2)

ClearLowest(bits) == BitAnd(bits, bits - 1)

(* Faulty variant: tests only the lowest order of the mask against the rest. *)
is_valid_subset_lowest_only(cm, mask, bits) ==
    bits = 0 \/ BitAnd(cm[LowestBit(bits) + 1], mask) = mask

RECURSIVE is_valid_subset(_, _, _)
is_valid_subset(cm, mask, bits) ==
    IF bits = 0 THEN TRUE
    ELSE IF BitAnd(cm[LowestBit(bits) + 1], mask) # mask THEN FALSE
    ELSE is_valid_subset(cm, mask, ClearLowest(bits))

(***************************************************************************)
(* The totals loop of one mask, with its early break: bits still to add    *)
(* and the totals so far; valid is FALSE when the loop broke.              *)
(***************************************************************************)
RECURSIVE SubsetTotals(_, _, _, _)
SubsetTotals(bits, total_weight, total_volume, total_payout) ==
    IF bits = 0
    THEN [valid |-> TRUE, total_weight |-> total_weight,
          total_volume |-> total_volume, total_payout |-> total_payout]
    ELSE LET order == orders[LowestBit(bits) + 1]
             w == total_weight + order.weight_lbs
             v == total_volume + order.volume_cuft
             p == total_payout + order.payout_cents
         IN  IF w > max_weight \/ v > max_volume
             THEN [valid |-> FALSE, total_weight |-> w, total_volume |-> v,
                   total_payout |-> p]
             ELSE SubsetTotals(ClearLowest(bits), w, v, p)

RECURSIVE MaskIndices(_, _)
MaskIndices(mask, idx) ==
    IF mask = 0 THEN << >>
    ELSE (IF mask % 2 = 1 THEN <<idx>> ELSE << >>) \o MaskIndices(mask \div 2, idx + 1)

DpReturnEmpty ==
    /\ pc = "done"
    /\ dp = NoDp
    /\ n = 0
    /\ dp' = [at |-> "done", result |-> EmptyResult]
    /\ UNCHANGED <<inputVars, handlerVars, threadVars, previous, pc, prepVars, best_result, stack, visited, result, compatVars>>

DpStart ==
    /\ pc = "done"
    /\ dp = NoDp
    /\ n > 0
    /\ dp' = [at |-> "loop", compatible_mask |-> CompatibleMask(orders), mask |-> 1,
              best_payout |-> 0, best_mask |-> 0, best_weight |-> 0, best_volume |-> 0]
    /\ UNCHANGED <<inputVars, handlerVars, threadVars, previous, pc, prepVars, best_result, stack, visited, result, compatVars>>

DpIterate ==
    /\ dp.at = "loop"
    /\ dp.mask < Shl1(n)
    /\ LET totals == SubsetTotals(dp.mask, 0, 0, 0)
           after == [dp EXCEPT !.mask = dp.mask + 1]
       IN  dp' = IF ~totals.valid THEN after
                 ELSE IF totals.total_payout <= dp.best_payout THEN after
                 ELSE IF ~is_valid_subset(dp.compatible_mask, dp.mask, dp.mask) THEN after
                 ELSE [after EXCEPT !.best_payout = totals.total_payout,
                                    !.best_mask = dp.mask,
                                    !.best_weight = totals.total_weight,
                                    !.best_volume = totals.total_volume]
    /\ UNCHANGED <<inputVars, handlerVars, threadVars, previous, pc, prepVars, best_result, stack, visited, result, compatVars>>

DpReturn ==
    /\ dp.at = "loop"
    /\ dp.mask >= Shl1(n)
    /\ dp' = [at |-> "done",
              result |-> OptimizationResult(MaskIndices(dp.best_mask, 0), dp.best_payout,
                                            dp.best_weight, dp.best_volume)]
    /\ UNCHANGED <<inputVars, handlerVars, threadVars, previous, pc, prepVars, best_result, stack, visited, result, compatVars>>

(***************************************************************************)
(* Both solvers called in turn with the same truck and list:               *)
(* optimize_load_backtracking, then optimize_load_bitmask_dp.              *)
(***************************************************************************)
InitBoth == InitWith(Trucks, ListsOf(LoadOrders) \cup ListsOf(HazmatOrders))

NextBoth ==
    \/ Next
    \/ DpReturnEmpty
    \/ DpStart
    \/ DpIterate
    \/ DpReturn

SpecBoth == InitBoth /\ [][NextBoth]_vars

DpSelection == Range(dp.result.selected_indices)

(***************************************************************************)
(* C18: when both solvers have returned for the same truck and list, they  *)
(* report the same total_payout_cents, and the selection of each is within *)
(* capacity, pairwise compatible and has the payout reported.              *)
(***************************************************************************)
C18_SolversAgree ==
    dp.at = "done" =>
        /\ dp.result.total_payout_cents = result.total_payout_cents
        /\ DpSelection \subseteq Positions
        /\ Feasible(DpSelection)
        /\ Total(DpSelection, "payout_cents") = dp.result.total_payout_cents
        /\ Selection \subseteq Positions
        /\ Feasible(Selection)
        /\ Total(Selection, "payout_cents") = result.total_payout_cents

C18_Witness ==
    /\ dp.at = "done"
    /\ n >= 3
    /\ result.total_payout_cents > 0
    /\ DpSelection # Selection
    /\ Cardinality(DpSelection) >= 2
    /\ ~WithinCapacity(Positions)

(***************************************************************************)
(* C19: every selected index of the result of optimize_load refers to an   *)
(* order with payout > 0, so an order with payout 0 is never selected, and *)
(* the selection is empty whenever all payouts are 0.                      *)
(***************************************************************************)
C19_NoZeroPayoutSelected ==
    Returned =>
        /\ \A a \in Selection : orders[a + 1].payout_cents > 0
        /\ (\A a \in Positions : orders[a + 1].payout_cents = 0) =>
              result.selected_indices = << >>

C19_Witness ==
    /\ Returned
    /\ n >= 3
    /\ orders[1].payout_cents = 0
    /\ Cardinality(Selection) >= 2
    /\ Feasible(Selection \cup {0})
    /\ 0 \notin Selection

====
